---- MODULE Spec2Model ----
(***************************************************************************)
(* Model of the coxistai chatbot backend: the two-stage educational        *)
(* classifier (modules/text_classifier.py), the tiered model router        *)
(* (modules/query.py) and the chat handlers that compose them (app.py).    *)
(*                                                                         *)
(* Python strings are TLA+ strings; Python's None and optional strings are *)
(* tagged records.  Classifier scores are integers in hundredths.          *)
(***************************************************************************)
EXTENDS Integers, Sequences, FiniteSets, TLC

VARIABLES pc, caller, question, previous_response, system_prompt,
          escalate, response, eduResult, calls, raised, http,
          filename, file_type, temp_uploads

vars == <<pc, caller, question, previous_response, system_prompt,
          escalate, response, eduResult, calls, raised, http,
          filename, file_type, temp_uploads>>

(***************************************************************************)
(* Bounds of the model.                                                    *)
(***************************************************************************)
\* fragments concatenated into a text handed to is_educational
MaxTextFrags == 3
\* fragments concatenated into a question handed to get_response
MaxQuestionFrags == 3
\* fragments concatenated into a chat message or an extracted file text
MaxMessageFrags == 2

(***************************************************************************)
(* Python values.                                                          *)
(***************************************************************************)
None == [tag |-> "None", val |-> ""]
Str(s) == [tag |-> "str", val |-> s]
\* Python truthiness of an Optional[str]
Truthy(v) == v.tag = "str" /\ v.val # ""

(***************************************************************************)
(* Python string operations, character by character.  The strings of the   *)
(* model are ASCII: str.isspace() also holds of characters outside ASCII   *)
(* (NEL, the no-break space, ...), which no string here contains.          *)
(***************************************************************************)
Uppers == "ABCDEFGHIJKLMNOPQRSTUVWXYZ"
Lowers == "abcdefghijklmnopqrstuvwxyz"
Digits == "0123456789"
\* the characters c of the ASCII alphabet with c.isspace(): space, \t, \n, \r,
\* form feed, and, written as the characters themselves, vertical tab (0x0B)
\* and the separators FS, GS, RS, US (0x1C to 0x1F)
Whitespace == {" ", "\t", "\n", "\r", "\f", "", "", "", "", ""}

CharAt(s, i) == SubSeq(s, i, i)

\* str.lower() of one character
LowerChar(c) ==
    IF \E i \in 1..Len(Uppers) : CharAt(Uppers, i) = c
    THEN CharAt(Lowers, CHOOSE i \in 1..Len(Uppers) : CharAt(Uppers, i) = c)
    ELSE c

\* str.lower(): each character lowered, the string taken by halves
RECURSIVE Lower(_)
Lower(s) ==
    IF Len(s) = 0 THEN ""
    ELSE IF Len(s) = 1 THEN LowerChar(s)
    ELSE LET half == Len(s) \div 2
         IN Lower(SubSeq(s, 1, half)) \o Lower(SubSeq(s, half + 1, Len(s)))

\* Python's `k in s` for strings
Contains(s, k) ==
    \E i \in 1..(Len(s) - Len(k) + 1) : SubSeq(s, i, i + Len(k) - 1) = k

\* any(k in s for k in keywords)
AnyIn(keywords, s) == \E n \in 1..Len(keywords) : Contains(s, keywords[n])

\* the k-th smallest element of a set of numbers
Nth(S, k) == CHOOSE x \in S : Cardinality({y \in S : y < x}) = k - 1

\* str.split(): the words of s, the maximal runs without whitespace, in order
Split(s) ==
    LET starts == {i \in 1..Len(s) :
                      /\ CharAt(s, i) \notin Whitespace
                      /\ (i = 1 \/ CharAt(s, i - 1) \in Whitespace)}
        ends == {i \in 1..Len(s) :
                    /\ CharAt(s, i) \notin Whitespace
                    /\ (i = Len(s) \/ CharAt(s, i + 1) \in Whitespace)}
    IN [k \in 1..Cardinality(starts) |-> SubSeq(s, Nth(starts, k), Nth(ends, k))]

\* str.strip(chars): s without its leading and trailing characters of chars
StripChars(s, chars) ==
    LET keep == {i \in 1..Len(s) : CharAt(s, i) \notin chars}
    IN IF keep = {} THEN ""
       ELSE SubSeq(s, CHOOSE i \in keep : \A j \in keep : i <= j,
                      CHOOSE i \in keep : \A j \in keep : j <= i)

\* str.strip()
Strip(s) == StripChars(s, Whitespace)

\* str.replace(old, new) for a single character old
RECURSIVE Replace(_, _, _)
Replace(s, old, new) ==
    IF Len(s) = 0 THEN ""
    ELSE (IF CharAt(s, 1) = old THEN new ELSE CharAt(s, 1))
         \o Replace(SubSeq(s, 2, Len(s)), old, new)

\* sep.join(words)
RECURSIVE Join(_, _)
Join(sep, words) ==
    IF Len(words) = 0 THEN ""
    ELSE IF Len(words) = 1 THEN words[1]
    ELSE words[1] \o sep \o Join(sep, Tail(words))

\* re.sub("[^...]", "", s): s without the characters outside allowed
RECURSIVE Keep(_, _)
Keep(s, allowed) ==
    IF Len(s) = 0 THEN ""
    ELSE (IF CharAt(s, 1) \in allowed THEN CharAt(s, 1) ELSE "")
         \o Keep(SubSeq(s, 2, Len(s)), allowed)

\* s * n, taken by halves
RECURSIVE Repeat(_, _)
Repeat(s, n) ==
    IF n = 0 THEN ""
    ELSE LET h == Repeat(s, n \div 2)
         IN h \o h \o (IF n % 2 = 1 THEN s ELSE "")

\* all concatenations of at most n fragments of F
RECURSIVE Concats(_, _)
Concats(F, n) ==
    IF n = 0 THEN {""}
    ELSE LET S == Concats(F, n - 1) IN S \cup {s \o f : s \in S, f \in F}

(***************************************************************************)
(* modules/text_classifier.py                                              *)
(***************************************************************************)
NON_EDU_KEYWORDS == <<
    "movie", "theft", "robbery", "netflix", "watch", "download", "shopping", "travel",
    "celebrity", "repair my", "fix my", "broken", "not working", "how much to repair",
    "where to fix", "price of", "how much does", "cost of", "which phone", "which mobile",
    "which game", "best ice cream", "recommend a", "which brand", "better option",
    "should I buy", "top rated" >>

EDU_KEYWORDS == <<
    "explain", "how", "science", "language", "history", "scientific", "logic",
    "architecture", "design principles", "engineering", "teach me", "learning",
    "pedagogy", "types of", "list of", "classification of", "define", "difference between" >>

EduLabel == "educational: factual knowledge, explanations, technology, critical thinking, science, maths, sports, coding, general knowledge, or academic concepts"
NonEduLabel == "non-educational: requests product comparisons, unsafe, Consumer Product Advice, shopping advice, entertainment, random_fun, plant_motivation, absurd_request, gaming, or personal opinions"

labels == <<EduLabel, NonEduLabel>>

ZeroShotModel == "typeform/distilbert-base-uncased-mnli"

\* the score a label must exceed, in hundredths (0.85)
ConfidenceThreshold == 85

\* KeywordVerdict with the keywords looked up in the text as typed
KeywordVerdict_as_typed(q) ==
    IF q = "" THEN "False"
    ELSE IF AnyIn(NON_EDU_KEYWORDS, q) THEN "False"
    ELSE IF AnyIn(EDU_KEYWORDS, q) THEN "True"
    ELSE "classifier"

\* is_educational up to the zero-shot call: "False", "True", or "classifier"
\* when the keyword lists do not decide
KeywordVerdict(q) ==
    IF q = "" THEN "False"
    ELSE LET question_lower == Lower(q)
         IN IF AnyIn(NON_EDU_KEYWORDS, question_lower) THEN "False"
            ELSE IF AnyIn(EDU_KEYWORDS, question_lower) THEN "True"
            ELSE "classifier"

\* ClassifierVerdict failing closed when the classifier raises
ClassifierVerdict_fail_closed(result) ==
    IF result.kind = "raise" THEN [raised |-> FALSE, value |-> "False"]
    ELSE IF Contains(result.labels[1], "educational")
            /\ result.scores[1] > ConfidenceThreshold
         THEN [raised |-> FALSE, value |-> "True"]
         ELSE [raised |-> FALSE, value |-> "False"]

\* is_educational after the zero-shot call: result is what classifier(question,
\* labels) did, a raise or labels and scores ordered by descending score
ClassifierVerdict(result) ==
    IF result.kind = "raise" THEN [raised |-> FALSE, value |-> "True"]
    ELSE IF Contains(result.labels[1], "educational")
            /\ result.scores[1] > ConfidenceThreshold
         THEN [raised |-> FALSE, value |-> "True"]
         ELSE [raised |-> FALSE, value |-> "False"]

(***************************************************************************)
(* modules/query.py: SmartDeepSeek                                         *)
(***************************************************************************)
free_model == "gpt-3.5-turbo"
paid_model == "gpt-4o-mini"
reason_model == "gpt-4o"

complexity_threshold == 15

dissatisfaction_triggers == <<
    "not satisfied", "explain better",
    "more detail", "incomplete answer" >>

technical_terms == <<
    "explain in detail", "step-by-step",
    "prove that", "compare and contrast" >>

Apology == "I apologize, but I encountered an error while generating a response."

\* needs_paid_model escalating at the threshold itself
needs_paid_model_at_threshold(q, prev) ==
    LET question_lower == Lower(q)
    IN IF AnyIn(dissatisfaction_triggers, Lower(prev)) THEN TRUE
       ELSE IF Len(Split(q)) >= complexity_threshold THEN TRUE
       ELSE IF AnyIn(technical_terms, question_lower) THEN TRUE
       ELSE FALSE

needs_paid_model(q, prev) ==
    LET question_lower == Lower(q)
    IN IF AnyIn(dissatisfaction_triggers, Lower(prev)) THEN TRUE
       ELSE IF Len(Split(q)) > complexity_threshold THEN TRUE
       ELSE IF AnyIn(technical_terms, question_lower) THEN TRUE
       ELSE FALSE

\* the messages list query_model builds
Messages(q, sp) ==
    (IF Truthy(sp) THEN <<[role |-> "system", content |-> sp.val]>> ELSE <<>>)
    \o <<[role |-> "user", content |-> q]>>

\* query_model without its except clause
query_model_uncaught(outcome) ==
    IF outcome.kind = "raise"
    THEN [raised |-> TRUE, value |-> None]
    ELSE [raised |-> FALSE, value |-> outcome.content]

\* what query_model hands back for an outcome of chat.completions.create:
\* the content of the first choice, or None when the call raised
query_model(outcome) ==
    IF outcome.kind = "raise"
    THEN [raised |-> FALSE, value |-> None]
    ELSE [raised |-> FALSE, value |-> outcome.content]

\* FirstModel with the tiers the wrong way round
FirstModel_swapped(needs_paid) == IF needs_paid THEN free_model ELSE paid_model

\* the model get_response queries first
FirstModel(needs_paid) == IF needs_paid THEN paid_model ELSE free_model

\* NeedsFallback as `if response is None`
NeedsFallback_is_none(resp) == resp = None

\* `if not response` after the paid call: fall back to the reason model
NeedsFallback(resp) == ~Truthy(resp)

\* FinalResponse as `response if response is not None else "I apologize, ..."`
FinalResponse_is_none(resp) == IF resp = None THEN Str(Apology) ELSE resp

\* `response or "I apologize, ..."`
FinalResponse(resp) == IF Truthy(resp) THEN resp ELSE Str(Apology)

(***************************************************************************)
(* app.py                                                                  *)
(***************************************************************************)
SYSTEM_PROMPT == "You are an expert educational assistant named SparkTutor. Provide clean, well-structured, and direct answers.\n- Use bold text for key terms.\n- Use bullet points or numbered lists where appropriate for clarity.\n- Do not repeat the user's question in your response.\n"

ImageExtensions == {"png", "jpg", "jpeg", "gif", "bmp", "tiff"}
DocumentExtensions == {"pdf", "docx"}
AudioExtensions == {"mp3", "wav", "m4a"}

\* ALLOWED_EXTENSIONS, in its insertion order
ALLOWED_EXTENSIONS == <<
    [ftype |-> "image", exts |-> ImageExtensions],
    [ftype |-> "document", exts |-> DocumentExtensions],
    [ftype |-> "audio", exts |-> AudioExtensions] >>

\* filename.rsplit('.', 1)[1]
Extension(name) ==
    LET dots == {i \in 1..Len(name) : CharAt(name, i) = "."}
        last == CHOOSE i \in dots : \A j \in dots : j <= i
    IN SubSeq(name, last + 1, Len(name))

allowed_file(name, n) ==
    Contains(name, ".") /\ Lower(Extension(name)) \in ALLOWED_EXTENSIONS[n].exts

\* next(ftype for ... if allowed_file(name, ftype)), None as "None"
FileType(name) ==
    LET ok == {n \in 1..Len(ALLOWED_EXTENSIONS) : allowed_file(name, n)}
    IN IF ok = {} THEN "None"
       ELSE ALLOWED_EXTENSIONS[CHOOSE n \in ok : \A m \in ok : n <= m].ftype

\* the characters werkzeug's secure_filename keeps: [A-Za-z0-9_.-]
FilenameAlphabet == Uppers \o Lowers \o Digits \o "_.-"
FilenameChars == {CharAt(FilenameAlphabet, i) : i \in 1..Len(FilenameAlphabet)}

\* werkzeug.utils.secure_filename of an ASCII name where os.sep is "/": the
\* separators become spaces, the words are joined with "_", every character
\* outside [A-Za-z0-9_.-] is dropped, leading and trailing "." and "_" go
secure_filename(name) ==
    StripChars(Keep(Join("_", Split(Replace(name, "/", " "))), FilenameChars),
               {".", "_"})

\* text[:200] + '...' if len(text) > 200 else text
EchoLimit == 200
Echo(text) ==
    IF Len(text) > EchoLimit THEN SubSeq(text, 1, EchoLimit) \o "..." ELSE text

\* extract_text_from_image: the stripped OCR text, "" when OCR raises
extract_text_from_image(ocr) ==
    IF ocr.kind = "raise" THEN "" ELSE Strip(ocr.text)

\* modules.pdf_parser.extract_text_from_file: (text, success), or a raise
extract_text_from_file(parse) ==
    IF parse.kind = "raise" THEN [raised |-> TRUE, text |-> None, success |-> FALSE]
    ELSE [raised |-> FALSE, text |-> Str(parse.text), success |-> parse.success]

\* extract_text_from_file_input: (text, success)
extract_text_from_file_input(ftype, io) ==
    IF ftype = "image"
    THEN [text |-> Str(extract_text_from_image(io)), success |-> TRUE]
    ELSE IF ftype = "document"
    THEN LET r == extract_text_from_file(io)
         IN IF r.raised THEN [text |-> None, success |-> FALSE]
            ELSE [text |-> r.text, success |-> r.success]
    ELSE [text |-> None, success |-> FALSE]

(***************************************************************************)
(* Inputs.                                                                 *)
(***************************************************************************)
\* texts handed to is_educational
TextFrags == {"explain ", "HOW ", "should I buy ", "watching ", "Price Of ",
              "cats ", "mov", "ie "}
ClassifierTexts == Concats(TextFrags, MaxTextFrags)

\* what classifier(question, labels) can do: raise, or return the two labels
\* ordered by descending score (scores in hundredths, summing to 100)
TopScores == {50, 80, 85, 86, 90, 100}
ZeroShotOutcomes ==
    {[kind |-> "raise", labels |-> <<>>, scores |-> <<>>]}
    \cup {[kind |-> "ok", labels |-> order, scores |-> <<t, 100 - t>>] :
            order \in {<<EduLabel, NonEduLabel>>, <<NonEduLabel, EduLabel>>},
            t \in TopScores}

\* questions, previous responses and system prompts handed to get_response
QuestionFrags == {"a\fb c\rd e ", "please tell me more about this ", "Step-By-Step",
                  "Compare And Contrast ", "i am Not Satisfied yet ", "\t\n\r\f "}
Questions == Concats(QuestionFrags, MaxQuestionFrags)
PreviousResponses == {"", "Thanks, that helps.", "I am NOT SATISFIED with that",
                      "please give more detail", "Explain Better!",
                      "That was an incomplete answer"}
SystemPrompts == {None, Str(""), Str(SYSTEM_PROMPT)}

\* what chat.completions.create can do: return content (text, "" or None), or raise
ChatOutcomes ==
    {[kind |-> "content", content |-> Str("**Photosynthesis** turns light into sugar.")],
     [kind |-> "content", content |-> Str("")],
     [kind |-> "content", content |-> None],
     [kind |-> "raise", content |-> None]}

\* chat messages and extracted file texts; "\n\f" is how tesseract ends a page
MessageFrags == {"\n\f", "explain ", "movie ", "cats ", "prove that "}
MessageTexts == Concats(MessageFrags, MaxMessageFrags)

\* texts of exactly EchoLimit characters and of more
LongTexts == {Repeat("cats ", 40), Repeat("cats ", 40) \o "!",
              "explain " \o Repeat("cats ", 40)}

\* request.get_json() of /api/chat/text and /api/classify: present is the
\* truth of data, has is whether the route's key is in it
JsonBodies ==
    {[present |-> FALSE, has |-> FALSE, value |-> ""],
     [present |-> TRUE, has |-> FALSE, value |-> ""]}
    \cup {[present |-> TRUE, has |-> TRUE, value |-> m] : m \in MessageTexts \cup LongTexts}

\* request.files of /api/chat/file and /api/extract: whether the body is over
\* MAX_CONTENT_LENGTH, whether 'file' is in it, and the name as the client sent it
Filenames == {"", "scan.PNG", "notes.pdf", "talk.mp3", "setup.exe", "README",
              "...", "/", "../my notes.pdf", "._scan.PNG"}
Uploads ==
    {[too_large |-> TRUE, present |-> TRUE, filename |-> "scan.PNG"],
     [too_large |-> FALSE, present |-> FALSE, filename |-> ""]}
    \cup {[too_large |-> FALSE, present |-> TRUE, filename |-> f] : f \in Filenames}

\* what file.save can do: return, or raise with or without temp_path created
SaveOutcomes ==
    {[raised |-> FALSE, written |-> TRUE],
     [raised |-> TRUE, written |-> TRUE],
     [raised |-> TRUE, written |-> FALSE]}

\* what Image.open can do
OpenOutcomes == {"opened", "raise"}

\* what pytesseract.image_to_string and the document parser can do
ExtractOutcomes ==
    {[kind |-> "raise", text |-> "", success |-> FALSE]}
    \cup {[kind |-> "text", text |-> t, success |-> b] :
            t \in MessageTexts, b \in BOOLEAN}

(***************************************************************************)
(* State of one call or request.                                           *)
(***************************************************************************)
NoHttp == [status |-> 0, body |-> "", is_educational |-> "unset"]
Http(status, body, edu) == [status |-> status, body |-> body, is_educational |-> edu]

Fresh == [pc |-> "idle", caller |-> "none", question |-> "",
          previous_response |-> "", system_prompt |-> None,
          escalate |-> "unset", response |-> None, eduResult |-> "unset",
          calls |-> <<>>, raised |-> FALSE, http |-> NoHttp,
          filename |-> "", file_type |-> "None", temp_uploads |-> {}]

State == [pc |-> pc, caller |-> caller, question |-> question,
          previous_response |-> previous_response, system_prompt |-> system_prompt,
          escalate |-> escalate, response |-> response, eduResult |-> eduResult,
          calls |-> calls, raised |-> raised, http |-> http,
          filename |-> filename, file_type |-> file_type,
          temp_uploads |-> temp_uploads]

Becomes(s) ==
    /\ pc' = s.pc
    /\ caller' = s.caller
    /\ question' = s.question
    /\ previous_response' = s.previous_response
    /\ system_prompt' = s.system_prompt
    /\ escalate' = s.escalate
    /\ response' = s.response
    /\ eduResult' = s.eduResult
    /\ calls' = s.calls
    /\ raised' = s.raised
    /\ http' = s.http
    /\ filename' = s.filename
    /\ file_type' = s.file_type
    /\ temp_uploads' = s.temp_uploads

Starts(s) ==
    /\ pc = s.pc
    /\ caller = s.caller
    /\ question = s.question
    /\ previous_response = s.previous_response
    /\ system_prompt = s.system_prompt
    /\ escalate = s.escalate
    /\ response = s.response
    /\ eduResult = s.eduResult
    /\ calls = s.calls
    /\ raised = s.raised
    /\ http = s.http
    /\ filename = s.filename
    /\ file_type = s.file_type
    /\ temp_uploads = s.temp_uploads

\* the log of external calls: each call as issued, then with how it ended
Pending == [kind |-> "pending"]
ZeroShotCall(text) ==
    [api |-> "zero-shot", model |-> ZeroShotModel, text |-> text,
     messages |-> <<>>, labels |-> labels, outcome |-> Pending]
ChatCall(model, q, sp) ==
    [api |-> "chat", model |-> model, text |-> q,
     messages |-> Messages(q, sp), labels |-> <<>>, outcome |-> Pending]
Ended(s, outcome) == [s EXCEPT !.calls[Len(s.calls)].outcome = outcome]

InternalError == "An internal server error occurred."
TooLarge == "File too large. Maximum size is 16MB."
NotFound == "This API endpoint does not exist."
FileError == "An unexpected error occurred while processing the file"

RefusalText == "I specialize in educational content. Please ask about academic subjects."
RefusalFile == "The content of this file does not appear to be educational."

\* where a handler's return or raise leads: chat_file and extract_only leave
\* through their finally clause
Exit(handler) == IF handler \in {"chat_file", "extract_only"} THEN "finally" ELSE "done"

(***************************************************************************)
(* get_response, from its call to its first chat-completion call, and from *)
(* each call's outcome to the next call or to the return to its caller.    *)
(***************************************************************************)
get_response_enter(s, q, prev, sp) ==
    LET needs_paid == needs_paid_model(q, prev)
        model == FirstModel(needs_paid)
    IN [s EXCEPT !.question = q, !.previous_response = prev, !.system_prompt = sp,
                 !.escalate = IF needs_paid THEN "True" ELSE "False",
                 !.pc = model,
                 !.calls = Append(s.calls, ChatCall(model, q, sp))]

\* get_response returns value to its caller
get_response_return(s, value) ==
    IF s.caller = "get_response"
    THEN [s EXCEPT !.pc = "done", !.response = value]
    ELSE [s EXCEPT !.pc = Exit(s.caller), !.response = value,
                   !.http = Http(200, value.val, "True")]

\* an exception leaves get_response
get_response_raise(s) ==
    IF s.caller = "get_response"
    THEN [s EXCEPT !.pc = "done", !.raised = TRUE]
    ELSE IF s.caller = "chat_text"
    THEN [s EXCEPT !.pc = "done", !.http = Http(500, "Failed to generate AI response.", "unset")]
    ELSE [s EXCEPT !.pc = "finally", !.http = Http(500, FileError, "unset")]

\* the paid model's call ended with outcome
get_response_paid(s0, outcome) ==
    LET s == Ended(s0, outcome)
        r == query_model(outcome)
    IN IF r.raised THEN get_response_raise(s)
       ELSE IF NeedsFallback(r.value)
       THEN [s EXCEPT !.pc = reason_model, !.response = r.value,
                      !.calls = Append(s.calls,
                                       ChatCall(reason_model, s.question, s.system_prompt))]
       ELSE get_response_return(s, FinalResponse(r.value))

\* the reason or the free model's call ended with outcome
get_response_last(s0, outcome) ==
    LET s == Ended(s0, outcome)
        r == query_model(outcome)
    IN IF r.raised THEN get_response_raise(s)
       ELSE get_response_return(s, FinalResponse(r.value))

(***************************************************************************)
(* is_educational, from its call to the zero-shot call or to its return,   *)
(* and the handler's code after its return.                                *)
(***************************************************************************)
\* Admits without the classifier's gate
Admits_all(edu) == TRUE

\* chat_text and chat_file go on to get_response only for educational text
Admits(edu) == edu = "True"

\* is_educational returns edu to its caller
is_educational_return(s, edu) ==
    LET t == [s EXCEPT !.eduResult = edu]
    IN IF s.caller = "is_educational" THEN [t EXCEPT !.pc = "done"]
       ELSE IF s.caller = "classify_text"
       THEN [t EXCEPT !.pc = "done", !.http = Http(200, Echo(s.question), edu)]
       ELSE IF ~Admits(edu)
       THEN [t EXCEPT !.pc = Exit(s.caller),
                      !.http = Http(200, IF s.caller = "chat_text" THEN RefusalText
                                                                   ELSE RefusalFile,
                                    "False")]
       ELSE get_response_enter(t, s.question, "", Str(SYSTEM_PROMPT))

\* an exception leaves is_educational: outside any try in chat_text and
\* classify_text (Flask's 500 handler answers), inside chat_file's
is_educational_raise(s) ==
    IF s.caller = "is_educational"
    THEN [s EXCEPT !.pc = "done", !.raised = TRUE]
    ELSE IF s.caller = "chat_file"
    THEN [s EXCEPT !.pc = "finally", !.http = Http(500, FileError, "unset")]
    ELSE [s EXCEPT !.pc = "done", !.http = Http(500, InternalError, "unset")]

is_educational_enter(s, text) ==
    LET t == [s EXCEPT !.question = text]
        v == KeywordVerdict(text)
    IN IF v = "classifier"
       THEN [t EXCEPT !.pc = "classifier", !.calls = Append(s.calls, ZeroShotCall(text))]
       ELSE is_educational_return(t, v)

is_educational_classified(s0, result) ==
    LET s == Ended(s0, result)
        r == ClassifierVerdict(result)
    IN IF r.raised THEN is_educational_raise(s)
       ELSE is_educational_return(s, r.value)

(***************************************************************************)
(* The handlers of app.py, each from the request to its first wait, and    *)
(* chat_file and extract_only from each wait to the next.                  *)
(***************************************************************************)
\* a request no route matches: Flask raises NotFound, not_found answers
not_found(s) ==
    [s EXCEPT !.pc = "done", !.caller = "not_found", !.http = Http(404, NotFound, "unset")]

index(s) ==
    [s EXCEPT !.pc = "done", !.caller = "index",
              !.http = Http(200, "SparkTutor Chatbot API is online and healthy.", "unset")]

health_check(s) ==
    [s EXCEPT !.pc = "done", !.caller = "health_check",
              !.http = Http(200, "healthy", "unset")]

chat_text(s, data) ==
    IF ~data.present \/ ~data.has \/ Strip(data.value) = ""
    THEN [s EXCEPT !.pc = "done", !.caller = "chat_text",
                   !.http = Http(400, "Message is required and cannot be empty", "unset")]
    ELSE is_educational_enter([s EXCEPT !.caller = "chat_text"], Strip(data.value))

classify_text(s, data) ==
    IF ~data.present \/ ~data.has
    THEN [s EXCEPT !.pc = "done", !.caller = "classify_text",
                   !.http = Http(400, "Text is required", "unset")]
    ELSE is_educational_enter([s EXCEPT !.caller = "classify_text"], data.value)

\* chat_file up to file.save: request.files raises 413 for a body over
\* MAX_CONTENT_LENGTH, the emptiness test reads the name as sent, the type is
\* that of the secured name
chat_file(s, upload) ==
    LET t == [s EXCEPT !.pc = "done", !.caller = "chat_file"]
        secured == secure_filename(upload.filename)
        ftype == FileType(secured)
    IN IF upload.too_large
       THEN [t EXCEPT !.http = Http(413, TooLarge, "unset")]
       ELSE IF ~upload.present \/ upload.filename = ""
       THEN [t EXCEPT !.http = Http(400, "No file provided or selected", "unset")]
       ELSE IF ftype = "None"
       THEN [t EXCEPT !.http = Http(400, "Unsupported file type", "unset")]
       ELSE [t EXCEPT !.pc = "save", !.filename = secured, !.file_type = ftype]

\* extract_only up to file.save
extract_only(s, upload) ==
    LET t == [s EXCEPT !.pc = "done", !.caller = "extract_only"]
        secured == secure_filename(upload.filename)
        ftype == FileType(secured)
    IN IF upload.too_large
       THEN [t EXCEPT !.http = Http(413, TooLarge, "unset")]
       ELSE IF ~upload.present \/ upload.filename = ""
       THEN [t EXCEPT !.http = Http(400, "No file provided or selected", "unset")]
       ELSE IF ftype = "None"
       THEN [t EXCEPT !.http = Http(400, "Unsupported file type", "unset")]
       ELSE [t EXCEPT !.pc = "save", !.filename = secured, !.file_type = ftype]

\* file.save(temp_path) ended: chat_file catches what it raises, extract_only
\* lets it through to Flask's 500 handler; both pass their finally clause
file_save(s, save) ==
    LET t == [s EXCEPT !.temp_uploads = IF save.written THEN @ \cup {s.filename} ELSE @]
    IN IF ~save.raised THEN [t EXCEPT !.pc = "extract"]
       ELSE IF s.caller = "chat_file"
       THEN [t EXCEPT !.pc = "finally", !.http = Http(500, FileError, "unset")]
       ELSE [t EXCEPT !.pc = "finally", !.http = Http(500, InternalError, "unset")]

\* extract_text_from_file_input(temp_path, file_type) ended
file_extracted(s, io) ==
    LET got == extract_text_from_file_input(s.file_type, io)
    IN IF s.caller = "extract_only"
       THEN IF got.success /\ Truthy(got.text)
            THEN [s EXCEPT !.pc = "finally", !.http = Http(200, got.text.val, "unset")]
            ELSE [s EXCEPT !.pc = "finally",
                           !.http = Http(400, "Failed to extract text from file", "unset")]
       ELSE IF ~got.success \/ ~Truthy(got.text)
       THEN [s EXCEPT !.pc = "finally",
                      !.http = Http(400, "Failed to extract text from the "
                                         \o s.file_type \o " file.", "unset")]
       ELSE is_educational_enter(s, got.text.val)

\* extract_text_from_image up to pytesseract: Image.open(file_data) raises
\* when temp_path is not there, and may raise when it is; the except clause
\* then returns "" to the handler.  Once the image is open, OCR runs whatever
\* happens to temp_path
image_open(s, opened) ==
    IF s.filename \notin s.temp_uploads \/ opened = "raise"
    THEN file_extracted(s, [kind |-> "raise", text |-> "", success |-> FALSE])
    ELSE [s EXCEPT !.pc = "ocr"]

\* finally: if os.path.exists(temp_path)
finally_exists(s) ==
    IF s.filename \in s.temp_uploads THEN [s EXCEPT !.pc = "remove"]
    ELSE [s EXCEPT !.pc = "done"]

\* finally: os.remove(temp_path); its FileNotFoundError, when the file went
\* away after the test, replaces the handler's response by Flask's 500
os_remove(s) ==
    IF s.filename \in s.temp_uploads
    THEN [s EXCEPT !.pc = "done", !.temp_uploads = @ \ {s.filename}]
    ELSE [s EXCEPT !.pc = "done", !.http = Http(500, InternalError, "unset")]

\* a concurrent request with the same secured filename saves temp_path or
\* removes it
other_request(s) ==
    [s EXCEPT !.temp_uploads = IF s.filename \in @ THEN @ \ {s.filename}
                                                   ELSE @ \cup {s.filename}]

(***************************************************************************)
(* Actions.                                                                *)
(***************************************************************************)
Idle == pc = "idle"

UnknownUrl == Idle /\ Becomes(not_found(State))

Index == Idle /\ Becomes(index(State))

HealthCheck == Idle /\ Becomes(health_check(State))

ChatText == Idle /\ \E data \in JsonBodies : Becomes(chat_text(State, data))

ClassifyText == Idle /\ \E data \in JsonBodies : Becomes(classify_text(State, data))

ChatFile == Idle /\ \E upload \in Uploads : Becomes(chat_file(State, upload))

ExtractOnly == Idle /\ \E upload \in Uploads : Becomes(extract_only(State, upload))

FileSaved == pc = "save" /\ \E save \in SaveOutcomes : Becomes(file_save(State, save))

ImageOpened ==
    /\ pc = "extract" /\ file_type = "image"
    /\ \E opened \in OpenOutcomes : Becomes(image_open(State, opened))

OcrReturns ==
    pc = "ocr" /\ \E io \in ExtractOutcomes : Becomes(file_extracted(State, io))

\* a document's parser returns or raises; an audio file has no extraction
TextExtracted ==
    /\ pc = "extract" /\ file_type # "image"
    /\ \E io \in ExtractOutcomes : Becomes(file_extracted(State, io))

FinallyExists == pc = "finally" /\ Becomes(finally_exists(State))

FinallyRemove == pc = "remove" /\ Becomes(os_remove(State))

OtherRequest ==
    /\ caller \in {"chat_file", "extract_only"}
    /\ pc \notin {"idle", "done"}
    /\ Becomes(other_request(State))

IsEducational ==
    /\ pc = "call" /\ caller = "is_educational"
    /\ Becomes(is_educational_enter(State, question))

GetResponse ==
    /\ pc = "call" /\ caller = "get_response"
    /\ Becomes(get_response_enter(State, question, previous_response, system_prompt))

ClassifierReturns ==
    /\ pc = "classifier"
    /\ \E result \in ZeroShotOutcomes : Becomes(is_educational_classified(State, result))

PaidReturns ==
    /\ pc = paid_model
    /\ \E outcome \in ChatOutcomes : Becomes(get_response_paid(State, outcome))

ReasonReturns ==
    /\ pc = reason_model
    /\ \E outcome \in ChatOutcomes : Becomes(get_response_last(State, outcome))

FreeReturns ==
    /\ pc = free_model
    /\ \E outcome \in ChatOutcomes : Becomes(get_response_last(State, outcome))

\* the HTTP response is sent and the request's values are discarded; the
\* upload folder stays as it is
Respond == pc = "done" /\ Becomes([Fresh EXCEPT !.temp_uploads = temp_uploads])

\* the service: requests handled one after another, other requests for the
\* same temp_path running beside a file request
Init == Starts(Fresh)
Next == UnknownUrl \/ Index \/ HealthCheck \/ ChatText \/ ClassifyText
        \/ ChatFile \/ ExtractOnly \/ FileSaved \/ ImageOpened \/ OcrReturns
        \/ TextExtracted \/ FinallyExists \/ FinallyRemove \/ OtherRequest
        \/ ClassifierReturns \/ PaidReturns \/ ReasonReturns \/ FreeReturns \/ Respond
Spec == Init /\ [][Next]_vars

\* is_educational called on any text
InitClassifier ==
    \E text \in ClassifierTexts :
        Starts([Fresh EXCEPT !.pc = "call", !.caller = "is_educational",
                             !.question = text])
NextClassifier == IsEducational \/ ClassifierReturns
SpecClassifier == InitClassifier /\ [][NextClassifier]_vars

\* get_response called with any question, previous response and system prompt
InitRouter ==
    \E q \in Questions, prev \in PreviousResponses, sp \in SystemPrompts :
        Starts([Fresh EXCEPT !.pc = "call", !.caller = "get_response", !.question = q,
                             !.previous_response = prev, !.system_prompt = sp])
NextRouter == GetResponse \/ PaidReturns \/ ReasonReturns \/ FreeReturns
SpecRouter == InitRouter /\ [][NextRouter]_vars

(***************************************************************************)
(* The vocabulary of the properties, stated on characters and independent  *)
(* of Lower, Contains and Split above.                                     *)
(***************************************************************************)
\* d is the lowercase of c
IsLowerOf(c, d) ==
    \/ \E i \in 1..Len(Uppers) : c = CharAt(Uppers, i) /\ d = CharAt(Lowers, i)
    \/ d = c /\ \A i \in 1..Len(Uppers) : c # CharAt(Uppers, i)

\* c and d are the same letter in either case, or the same character
SameLetter(c, d) ==
    \/ c = d
    \/ \E i \in 1..Len(Uppers) :
          \/ c = CharAt(Uppers, i) /\ d = CharAt(Lowers, i)
          \/ c = CharAt(Lowers, i) /\ d = CharAt(Uppers, i)

\* k occurs in s as typed
Occurs(k, s) ==
    \E i \in 0..(Len(s) - Len(k)) :
        \A j \in 1..Len(k) : CharAt(s, i + j) = CharAt(k, j)

\* k, as written, occurs in s lowercased
OccursLowered(k, s) ==
    \E i \in 0..(Len(s) - Len(k)) :
        \A j \in 1..Len(k) : IsLowerOf(CharAt(s, i + j), CharAt(k, j))

\* k occurs in s, letter case ignored
OccursAnyCase(k, s) ==
    \E i \in 0..(Len(s) - Len(k)) :
        \A j \in 1..Len(k) : SameLetter(CharAt(s, i + j), CharAt(k, j))

\* the number of whitespace-separated words of s: a word of n characters
\* has n - 1 pairs of neighbours
WordCount(s) ==
    LET inked == {i \in 1..Len(s) : CharAt(s, i) \notin Whitespace}
    IN Cardinality(inked) - Cardinality({i \in inked : i + 1 \in inked})

\* a chat-completion call that yielded no response: an error, None or empty text
NoResponse(o) ==
    o.kind = "raise" \/ (o.kind = "content" /\ (o.content = None \/ o.content = Str("")))

\* the escalation rule as the specification words it
MustEscalate(q, prev) ==
    \/ \E n \in 1..Len(dissatisfaction_triggers) :
          OccursAnyCase(dissatisfaction_triggers[n], prev)
    \/ WordCount(q) > complexity_threshold
    \/ \E n \in 1..Len(technical_terms) : OccursAnyCase(technical_terms[n], q)

ChatCalls == {i \in 1..Len(calls) : calls[i].api = "chat"}
ZeroShotCalls == {i \in 1..Len(calls) : calls[i].api = "zero-shot"}
Returned == pc = "done"
\* the handler's body is over: it returned, or only its finally clause is left
BodyOver == pc \in {"done", "finally", "remove"}

(***************************************************************************)
(* Properties of get_response (SpecRouter).                                *)
(***************************************************************************)
\* get_response is about to run, or waits for a chat-completion call to end:
\* the positions at which NextRouter has a step
Running == pc \in {"call", paid_model, reason_model, free_model}

\* C1: whatever the question, the previous response, the system prompt and
\* the outcome of each chat-completion call (text, empty, None or a raised
\* error), get_response never raises, what it returns is a string, and it
\* goes on until it returns (it is never stuck short of returning), within
\* two chat-completion calls.
C1_NeverRaisesReturnsString ==
    /\ ~raised
    /\ Returned => response.tag = "str"
    /\ Returned \/ Running
    /\ Len(calls) <= 2

\* a call in which both chat-completion calls raised, and a string came back
C1_Witness ==
    /\ Returned /\ caller = "get_response" /\ ~raised
    /\ Len(calls) = 2
    /\ \A i \in 1..2 : calls[i].outcome.kind = "raise"
    /\ response.tag = "str"

\* C2: when get_response escalates, the paid tier is called first; the
\* reason tier is called if and only if the paid call yielded no response,
\* once, with the same question and system prompt, and nothing follows it;
\* the free tier is never called: at most two chat-completion calls.
C2_PaidThenReasonOnce ==
    (caller = "get_response" /\ escalate = "True") =>
        /\ Len(calls) \in {1, 2}
        /\ calls[1].model = paid_model
        /\ calls[1].text = question
        /\ calls[1].messages = Messages(question, system_prompt)
        /\ \A i \in 1..Len(calls) : calls[i].api = "chat" /\ calls[i].model # free_model
        /\ calls[1].outcome.kind # "pending" =>
              (Len(calls) = 2 <=> NoResponse(calls[1].outcome))
        /\ Len(calls) = 2 =>
              /\ calls[2].model = reason_model
              /\ calls[2].text = calls[1].text
              /\ calls[2].messages = calls[1].messages
        /\ (Len(calls) = 2 /\ calls[2].outcome.kind # "pending") => Returned

\* the paid call returned empty text and the reason call was made with the
\* same system message
C2_Witness ==
    /\ caller = "get_response" /\ Returned
    /\ Len(calls) = 2
    /\ calls[1].outcome.kind = "content" /\ calls[1].outcome.content = Str("")
    /\ calls[2].model = reason_model
    /\ Len(calls[2].messages) = 2

\* C3: when every chat-completion call get_response attempted yielded no
\* response it returns exactly the apology string; when some attempted call
\* yielded text, it returns that text.
C3_ApologyOrText ==
    (Returned /\ caller = "get_response") =>
        /\ (\A i \in 1..Len(calls) : NoResponse(calls[i].outcome))
              => response = Str("I apologize, but I encountered an error while generating a response.")
        /\ \A i \in 1..Len(calls) :
              ~NoResponse(calls[i].outcome) => response = calls[i].outcome.content

\* the paid call returned empty text, the reason call None, and the apology came back
C3_Witness ==
    /\ Returned /\ caller = "get_response"
    /\ Len(calls) = 2
    /\ calls[1].outcome.kind = "content" /\ calls[1].outcome.content = Str("")
    /\ calls[2].outcome.kind = "content" /\ calls[2].outcome.content = None
    /\ response = Str(Apology)

\* C6: needs_paid_model is true if and only if a dissatisfaction trigger
\* occurs, case ignored, in previous_response, or question has more than 15
\* whitespace-separated words, or a technical trigger occurs, case ignored,
\* in question (checked as get_response acts on its answer).
C6_EscalationRule ==
    (caller = "get_response" /\ Len(calls) = 1 /\ calls[1].outcome.kind = "pending") =>
        /\ escalate \in {"True", "False"}
        /\ escalate = "True" <=> MustEscalate(question, previous_response)

\* a question of exactly 15 words that names a dissatisfaction trigger itself,
\* with an empty previous response, does not escalate
C6_Witness ==
    /\ caller = "get_response" /\ escalate = "False" /\ pc = free_model
    /\ WordCount(question) = 15
    /\ OccursAnyCase("not satisfied", question)
    /\ previous_response = ""

\* C7: when needs_paid_model is false, get_response makes exactly one
\* chat-completion call, to the free tier, even if that call fails.
C7_FreeOnly ==
    (caller = "get_response" /\ escalate = "False") =>
        /\ Len(calls) = 1
        /\ calls[1].api = "chat"
        /\ calls[1].model = free_model
        /\ calls[1].text = question
        /\ calls[1].outcome.kind # "pending" => Returned

\* the single free call raised and get_response returned
C7_Witness ==
    /\ caller = "get_response" /\ Returned
    /\ ~MustEscalate(question, previous_response)
    /\ Len(calls) = 1
    /\ calls[1].model = free_model
    /\ calls[1].outcome.kind = "raise"

(***************************************************************************)
(* Properties of is_educational (SpecClassifier).                          *)
(***************************************************************************)
NonEduOccurs(text) ==
    \E n \in 1..Len(NON_EDU_KEYWORDS) : OccursLowered(NON_EDU_KEYWORDS[n], text)
EduOccurs(text) ==
    \E n \in 1..Len(EDU_KEYWORDS) : OccursLowered(EDU_KEYWORDS[n], text)

\* C4: when the keyword lists do not decide and the zero-shot classifier
\* returns normally, is_educational is true exactly when the top label is the
\* educational label and its score exceeds 0.85.
C4_TopLabelEducational ==
    (/\ Returned /\ question # ""
     /\ \A n \in 1..Len(NON_EDU_KEYWORDS) : ~OccursAnyCase(NON_EDU_KEYWORDS[n], question)
     /\ \A m \in 1..Len(EDU_KEYWORDS) : ~OccursAnyCase(EDU_KEYWORDS[m], question)
     /\ Len(calls) = 1 /\ calls[1].outcome.kind = "ok") =>
        (eduResult = "True" <=>
            /\ calls[1].outcome.labels[1] = EduLabel
            /\ calls[1].outcome.scores[1] > 85)

\* C5: a text in which a non-educational keyword, "should I buy" among them,
\* occurs (case ignored) is not educational, and the classifier is not asked.
C5_NonEduKeywordRejects ==
    (Returned /\ \E n \in 1..Len(NON_EDU_KEYWORDS) :
                    OccursAnyCase(NON_EDU_KEYWORDS[n], question)) =>
        eduResult = "False" /\ calls = <<>>

\* C8: when the keyword lists do not decide and the zero-shot call raises,
\* is_educational returns true; no call of is_educational raises.
C8_FailOpen ==
    /\ ~raised
    /\ Returned => eduResult \in {"True", "False"}
    /\ (Returned /\ Len(calls) = 1 /\ calls[1].outcome.kind = "raise") =>
          eduResult = "True"

\* a text without keywords whose zero-shot call raised
C8_Witness ==
    /\ caller = "is_educational" /\ Returned
    /\ question # ""
    /\ ~NonEduOccurs(question) /\ ~EduOccurs(question)
    /\ Len(calls) = 1 /\ calls[1].outcome.kind = "raise"
    /\ eduResult = "True"

\* C9: a non-empty text whose lowercased form holds an educational keyword
\* and no non-educational keyword is educational.
C9_EduKeywordAccepts ==
    (Returned /\ question # "" /\ EduOccurs(question) /\ ~NonEduOccurs(question)) =>
        eduResult = "True"

\* a text holding an educational keyword in capitals only
C9_Witness ==
    /\ caller = "is_educational" /\ Returned
    /\ OccursLowered("how", question)
    /\ \A n \in 1..Len(EDU_KEYWORDS) : ~Occurs(EDU_KEYWORDS[n], question)
    /\ ~NonEduOccurs(question)
    /\ eduResult = "True"

(***************************************************************************)
(* Properties of the chat handlers (Spec).                                 *)
(***************************************************************************)
\* C10: in one chat request, chat-completion calls are made only once
\* is_educational has returned true for the request's text; a request found
\* not educational makes none; and a request makes at most one zero-shot
\* call, then at most two chat-completion calls.
C10_ClassifyThenRoute ==
    caller \in {"chat_text", "chat_file"} =>
        /\ ChatCalls # {} => eduResult = "True"
        /\ eduResult = "False" => ChatCalls = {} /\ BodyOver
        /\ \A i \in 1..Len(calls) : calls[i].text = question
        /\ Cardinality(ZeroShotCalls) <= 1
        /\ Cardinality(ChatCalls) <= 2
        /\ \A i \in ZeroShotCalls : \A j \in ChatCalls : i < j
        /\ \A i \in ZeroShotCalls :
              (calls[i].outcome.kind = "pending") => (eduResult = "unset" /\ ChatCalls = {})

\* a file request that asked the classifier, then the paid and the reason tier
C10_Witness ==
    /\ caller = "chat_file" /\ Returned
    /\ Len(calls) = 3
    /\ calls[1].api = "zero-shot"
    /\ calls[2].model = paid_model
    /\ calls[3].model = reason_model
    /\ http.status = 200
====
